---- MODULE Spec2Model ----
(***************************************************************************)
(* A model of hdfscm.HDFSContentsManager (src/hdfscm/hdfsmanager.py): the  *)
(* contents manager that serves a private and a shared HDFS directory as   *)
(* one logical namespace.  The state is the backing file system and the    *)
(* record of the last call made on the manager (arguments, outcome, the    *)
(* backend I/O calls it issued and the file system it started from).       *)
(*                                                                         *)
(* Conventions.  A string is a sequence of code points, a byte string a    *)
(* sequence of 0..255.  A file name is a sequence of tokens, so that       *)
(* startswith('.') and endswith('.ipynb') are computed; a path is a        *)
(* sequence of names (the '/'-separated segments).  An exception is a      *)
(* record [exc, code]: exc = "none" for a normal return, "HTTPError" with  *)
(* the HTTP code, or the name of the raw Python exception (code 0).        *)
(***************************************************************************)
EXTENDS Integers, Sequences, FiniteSets, TLC

(***************************************************************************)
(* Python values                                                           *)
(***************************************************************************)
\* Python's None
None == [none |-> TRUE]

\* a Python str with code points s
Str(s) == [str |-> s]

IsStr(v) == "str" \in DOMAIN v

NoExc == [exc |-> "none", code |-> 0]

HTTPError(c) == [exc |-> "HTTPError", code |-> c]

Raised(name) == [exc |-> name, code |-> 0]

(***************************************************************************)
(* str.encode('utf8'), bytes.decode('utf8'), str.encode('ascii')           *)
(***************************************************************************)
IsSurrogate(cp) == cp >= 55296 /\ cp <= 57343

\* the UTF-8 bytes of one code point (surrogates are refused by the caller)
Utf8Char(cp) ==
  IF cp < 128 THEN <<cp>>
  ELSE IF cp < 2048 THEN <<192 + (cp \div 64), 128 + (cp % 64)>>
  ELSE IF cp < 65536
       THEN <<224 + (cp \div 4096), 128 + ((cp \div 64) % 64), 128 + (cp % 64)>>
  ELSE <<240 + (cp \div 262144), 128 + ((cp \div 4096) % 64),
         128 + ((cp \div 64) % 64), 128 + (cp % 64)>>

RECURSIVE Utf8Bytes(_)
Utf8Bytes(s) == IF s = <<>> THEN <<>> ELSE Utf8Char(Head(s)) \o Utf8Bytes(Tail(s))

\* content.encode('utf8'): [ok, bytes]; a lone surrogate raises UnicodeEncodeError
encode_utf8(s) ==
  IF \E i \in 1..Len(s) : IsSurrogate(s[i])
  THEN [ok |-> FALSE, bytes |-> <<>>]
  ELSE [ok |-> TRUE, bytes |-> Utf8Bytes(s)]

\* content.encode('ascii'): [ok, bytes]
encode_ascii(s) ==
  IF \E i \in 1..Len(s) : s[i] >= 128
  THEN [ok |-> FALSE, bytes |-> <<>>]
  ELSE [ok |-> TRUE, bytes |-> s]

IsCont(b) == b >= 128 /\ b <= 191

\* bcontent.decode('utf8'), strict: [ok, str]
RECURSIVE decode_utf8(_)
decode_utf8(b) ==
  IF b = <<>> THEN [ok |-> TRUE, str |-> <<>>]
  ELSE
    LET b1 == b[1]
        n == IF b1 < 128 THEN 1
             ELSE IF b1 >= 194 /\ b1 <= 223 THEN 2
             ELSE IF b1 >= 224 /\ b1 <= 239 THEN 3
             ELSE IF b1 >= 240 /\ b1 <= 244 THEN 4
             ELSE 0
        wellFormed == /\ n > 0
                      /\ Len(b) >= n
                      /\ \A i \in 2..n : IsCont(b[i])
        cp == IF n = 1 THEN b1
              ELSE IF n = 2 THEN (b1 - 192) * 64 + (b[2] - 128)
              ELSE IF n = 3 THEN (b1 - 224) * 4096 + (b[2] - 128) * 64 + (b[3] - 128)
              ELSE (b1 - 240) * 262144 + (b[2] - 128) * 4096
                   + (b[3] - 128) * 64 + (b[4] - 128)
        valid == /\ wellFormed
                 /\ (n = 3 => cp >= 2048 /\ ~IsSurrogate(cp))
                 /\ (n = 4 => cp >= 65536 /\ cp <= 1114111)
    IN IF ~valid THEN [ok |-> FALSE, str |-> <<>>]
       ELSE LET rest == decode_utf8(SubSeq(b, n + 1, Len(b)))
            IN IF rest.ok THEN [ok |-> TRUE, str |-> <<cp>> \o rest.str]
               ELSE [ok |-> FALSE, str |-> <<>>]

(***************************************************************************)
(* base64.decodebytes and base64.encodebytes                               *)
(***************************************************************************)
\* the 6-bit value of a base64 alphabet character, 64 for any other character
B64Value(c) ==
  IF c >= 65 /\ c <= 90 THEN c - 65
  ELSE IF c >= 97 /\ c <= 122 THEN c - 97 + 26
  ELSE IF c >= 48 /\ c <= 57 THEN c - 48 + 52
  ELSE IF c = 43 THEN 62
  ELSE IF c = 47 THEN 63
  ELSE 64

\* the base64 alphabet character of a 6-bit value
B64Char(v) ==
  IF v < 26 THEN 65 + v
  ELSE IF v < 52 THEN 97 + (v - 26)
  ELSE IF v < 62 THEN 48 + (v - 52)
  ELSE IF v = 62 THEN 43
  ELSE 47

\* binascii.a2b_base64 (not strict), from position i with the decoder's state:
\* characters outside the alphabet are skipped, a complete padding ends the data
RECURSIVE A2B(_, _, _, _, _, _)
A2B(s, i, quad_pos, leftchar, pads, out) ==
  IF i > Len(s)
  THEN IF quad_pos # 0 THEN [ok |-> FALSE, bytes |-> <<>>]
       ELSE [ok |-> TRUE, bytes |-> out]
  ELSE
    LET c == s[i]
        v == B64Value(c)
    IN IF c = 61
       THEN IF quad_pos >= 2 /\ quad_pos + pads + 1 >= 4
            THEN [ok |-> TRUE, bytes |-> out]
            ELSE A2B(s, i + 1, quad_pos, leftchar,
                     IF quad_pos >= 2 THEN pads + 1 ELSE pads, out)
       ELSE IF v = 64 THEN A2B(s, i + 1, quad_pos, leftchar, pads, out)
       ELSE IF quad_pos = 0 THEN A2B(s, i + 1, 1, v, 0, out)
       ELSE IF quad_pos = 1
            THEN A2B(s, i + 1, 2, v % 16, 0,
                     Append(out, leftchar * 4 + (v \div 16)))
       ELSE IF quad_pos = 2
            THEN A2B(s, i + 1, 3, v % 4, 0,
                     Append(out, leftchar * 16 + (v \div 4)))
       ELSE A2B(s, i + 1, 0, 0, 0, Append(out, leftchar * 64 + v))

\* base64.decodebytes(b64_bytes): [ok, bytes]; binascii.Error when not ok
decodebytes(s) == A2B(s, 1, 0, 0, 0, <<>>)

\* the base64 characters of at most 57 bytes, without the newline
RECURSIVE B2A(_)
B2A(b) ==
  IF b = <<>> THEN <<>>
  ELSE IF Len(b) = 1
       THEN <<B64Char(b[1] \div 4), B64Char((b[1] % 4) * 16), 61, 61>>
  ELSE IF Len(b) = 2
       THEN <<B64Char(b[1] \div 4), B64Char((b[1] % 4) * 16 + (b[2] \div 16)),
              B64Char((b[2] % 16) * 4), 61>>
  ELSE <<B64Char(b[1] \div 4), B64Char((b[1] % 4) * 16 + (b[2] \div 16)),
         B64Char((b[2] % 16) * 4 + (b[3] \div 64)), B64Char(b[3] % 64)>>
       \o B2A(SubSeq(b, 4, Len(b)))

\* base64.encodebytes(bcontent): one line of base64 and a newline for every 57
\* bytes of input, nothing for no input
RECURSIVE encodebytes(_)
encodebytes(b) ==
  IF b = <<>> THEN <<>>
  ELSE IF Len(b) <= 57 THEN Append(B2A(b), 10)
  ELSE Append(B2A(SubSeq(b, 1, 57)), 10) \o encodebytes(SubSeq(b, 58, Len(b)))

(***************************************************************************)
(* Names and paths                                                         *)
(***************************************************************************)
\* name.startswith('.')
startswith_dot(name) == Len(name) >= 1 /\ name[1] = "."

\* name.endswith('.ipynb')
endswith_ipynb(name) ==
  Len(name) >= 2 /\ name[Len(name) - 1] = "." /\ name[Len(name)] = "ipynb"

\* path.endswith('.ipynb') for a '/'-joined path: its last segment decides
PathEndsWithIpynb(p) == p # <<>> /\ endswith_ipynb(p[Len(p)])

IsPrefix(r, p) == Len(r) <= Len(p) /\ SubSeq(p, 1, Len(r)) = r

\* the reserved first segment of the shared namespace
SharedSegment == <<"shared">>

\* HDFSCheckpoints.checkpoint_dir, the reserved checkpoint child name
checkpoint_dir == <<".", "ipynb_checkpoints">>

\* HDFSContentsManager.root_dir, one segment long in this model
root_dir == <<(<<"u">>)>>

\* HDFSContentsManager.shared_dir, disjoint from root_dir
shared_dir == <<(<<"j">>)>>

\* utils.to_fs_path(path, root): the root followed by the path's segments
to_fs_path(path, root) == root \o path

\* utils.to_api_path(fs_path, root): the path with the root stripped
to_api_path(fs_path, root) ==
  IF IsPrefix(root, fs_path) THEN SubSeq(fs_path, Len(root) + 1, Len(fs_path))
  ELSE fs_path

\* utils.is_hidden(fs_path, root): some segment below the root starts with '.'
is_hidden(fs_path, root) ==
  LET path == to_api_path(fs_path, root)
  IN \E i \in 1..Len(path) : startswith_dot(path[i])

\* utils.get_prefix_from_fs_path: the root a logical path is served from
get_prefix_from_fs_path(path, rd, sd) ==
  IF path # <<>> /\ path[1] = SharedSegment THEN sd ELSE rd

\* utils.get_prefix_from_hdfs_path: the root a physical path lies under
get_prefix_from_hdfs_path(hdfs_path, rd, sd) ==
  IF IsPrefix(sd, hdfs_path) /\ (~IsPrefix(rd, hdfs_path) \/ Len(sd) >= Len(rd))
  THEN sd ELSE rd

\* ContentsManager.should_list(name): the name matches none of hide_globs
should_list(name) == name # <<"__pycache__">>

(***************************************************************************)
(* The backend (pyarrow.fs.HadoopFileSystem).  A file system is a function *)
(* from the existing paths to their entries.  Every I/O call but stat may  *)
(* be refused for lack of permission: deny is the set of call kinds the    *)
(* name node refuses during the current operation.  A backend call returns *)
(* [err, fs, val] with err "none", "perm" or "io".                         *)
(***************************************************************************)
DirEntry == [type |-> "Directory", data |-> <<>>]

FileEntry(b) == [type |-> "File", data |-> b]

IntVal(n) == [int |-> n]

Ancestors(p) == {SubSeq(p, 1, k) : k \in 0..(Len(p) - 1)}

Children(f, p) == {q \in DOMAIN f : Len(q) = Len(p) + 1 /\ IsPrefix(p, q)}

Descendants(f, p) == {q \in DOMAIN f : Len(q) > Len(p) /\ IsPrefix(p, q)}

Stat(f, p) == IF p \in DOMAIN f THEN f[p].type ELSE "NotFound"

\* fs.get_file_info(path)
get_file_info(f, p) ==
  [path |-> p, type |-> Stat(f, p),
   size |-> IF Stat(f, p) = "File" THEN IntVal(Len(f[p].data)) ELSE None]

BackendOk(f, v) == [err |-> "none", fs |-> f, val |-> v]

BackendErr(e, f) == [err |-> e, fs |-> f, val |-> None]

\* f with the directories ds added where nothing exists yet
WithDirs(f, ds) ==
  [q \in DOMAIN f \cup ds |-> IF q \in DOMAIN f THEN f[q] ELSE DirEntry]

\* fs.get_file_info(FileSelector(path, recursive=False))
fs_list(f, p, deny) ==
  IF "list" \in deny THEN BackendErr("perm", f)
  ELSE IF Stat(f, p) # "Directory" THEN BackendErr("io", f)
  ELSE BackendOk(f, {get_file_info(f, q) : q \in Children(f, p)})

\* fs.open_input_stream(path).readall()
fs_read(f, p, deny) ==
  IF "read" \in deny THEN BackendErr("perm", f)
  ELSE IF Stat(f, p) # "File" THEN BackendErr("io", f)
  ELSE BackendOk(f, f[p].data)

\* fs.open_output_stream(path).write(b): creates or truncates the file, and
\* the missing parent directories as HDFS does
fs_write(f, p, b, deny) ==
  IF "write" \in deny THEN BackendErr("perm", f)
  ELSE IF Stat(f, p) = "Directory" \/ \E a \in Ancestors(p) : Stat(f, a) = "File"
       THEN BackendErr("io", f)
  ELSE BackendOk([WithDirs(f, Ancestors(p) \cup {p}) EXCEPT ![p] = FileEntry(b)], None)

\* fs.create_dir(path), recursive: succeeds silently on an existing directory
fs_create_dir(f, p, deny) ==
  IF "create" \in deny THEN BackendErr("perm", f)
  ELSE IF \E a \in Ancestors(p) \cup {p} : Stat(f, a) = "File"
       THEN BackendErr("io", f)
  ELSE BackendOk(WithDirs(f, Ancestors(p) \cup {p}), None)

\* fs.delete_file(path)
fs_delete_file(f, p, deny) ==
  IF "delete" \in deny THEN BackendErr("perm", f)
  ELSE IF Stat(f, p) # "File" THEN BackendErr("io", f)
  ELSE BackendOk([q \in DOMAIN f \ {p} |-> f[q]], None)

\* fs.delete_dir(path): the directory and everything below it
fs_delete_dir(f, p, deny) ==
  IF "delete" \in deny THEN BackendErr("perm", f)
  ELSE IF Stat(f, p) # "Directory" THEN BackendErr("io", f)
  ELSE BackendOk([q \in DOMAIN f \ ({p} \cup Descendants(f, p)) |-> f[q]], None)

\* the path q of src's subtree, moved below dst
Rebase(q, src, dst) == dst \o SubSeq(q, Len(src) + 1, Len(q))

\* fs.move(src, dest): the entry and its subtree are renamed; a missing source,
\* a missing destination parent, a destination inside the source and an
\* existing destination that is a non-empty directory or of the other type fail
fs_move(f, src, dst, deny) ==
  IF "move" \in deny THEN BackendErr("perm", f)
  ELSE IF \/ Stat(f, src) = "NotFound"
          \/ IsPrefix(src, dst)
          \/ dst = <<>>
          \/ Stat(f, SubSeq(dst, 1, Len(dst) - 1)) # "Directory"
          \/ Stat(f, dst) \notin {"NotFound", Stat(f, src)}
          \/ Children(f, dst) # {}
       THEN BackendErr("io", f)
  ELSE LET moved == {src} \cup Descendants(f, src)
           kept == DOMAIN f \ (moved \cup {dst})
           new == {Rebase(q, src, dst) : q \in moved}
       IN BackendOk([q \in kept \cup new |->
                       IF q \in kept THEN f[q]
                       ELSE f[CHOOSE o \in moved : Rebase(o, src, dst) = q]], None)

(***************************************************************************)
(* State                                                                   *)
(***************************************************************************)
VARIABLES
  fs,            \* the backing file system: existing path -> entry
  allow_hidden,  \* ContentsManager.allow_hidden, fixed for the process
  last           \* the last call on the manager and what came of it

vars == <<fs, allow_hidden, last>>

(***************************************************************************)
(* HDFSContentsManager.  A method returns [exc, code, fs, calls, ret]: the *)
(* exception it ends with (exc = "none": it returns ret), the file system  *)
(* it leaves and the backend I/O calls it issued, in order, each with the  *)
(* backend's answer.  stat (get_file_info of one path) is not logged.      *)
(***************************************************************************)
Result(e, f, calls, ret) ==
  [exc |-> e.exc, code |-> e.code, fs |-> f, calls |-> calls, ret |-> ret]

Call(kind, p, r) == [kind |-> kind, path |-> p, err |-> r.err]

Failed(r) == r.exc # "none"

ExcOf(r) == [exc |-> r.exc, code |-> r.code]

\* utils.perm_to_403 around a backend call that answered r: a permission
\* failure becomes HTTPError(403), any other failure propagates as raised
perm_to_403(r) ==
  IF r.err = "perm" THEN HTTPError(403)
  ELSE IF r.err = "io" THEN Raised("OSError")
  ELSE NoExc

path_exist(f, hdfs_path) == get_file_info(f, hdfs_path).type # "NotFound"

is_file(f, hdfs_path) == get_file_info(f, hdfs_path).type = "File"

is_dir(f, hdfs_path) == get_file_info(f, hdfs_path).type = "Directory"

list_dir(f, hdfs_path, deny) == fs_list(f, hdfs_path, deny)

exists(f, path) ==
  path_exist(f, to_fs_path(path, get_prefix_from_fs_path(path, root_dir, shared_dir)))

infer_type(f, path) ==
  IF PathEndsWithIpynb(path) THEN "notebook"
  ELSE IF is_dir(f, path) THEN "directory"
  ELSE "file"

\* _info_and_check_kind without the check of the kind
InfoWithoutKindCheck(f, path, hdfs_path, kind) ==
  LET info == get_file_info(f, hdfs_path)
  IN IF info.type = "NotFound" THEN [e |-> HTTPError(404), info |-> info]
     ELSE [e |-> NoExc, info |-> info]

\* [e, info]
_info_and_check_kind(f, path, hdfs_path, kind) ==
  LET info == get_file_info(f, hdfs_path)
  IN IF info.type = "NotFound" THEN [e |-> HTTPError(404), info |-> info]
     ELSE IF info.type # kind THEN [e |-> HTTPError(400), info |-> info]
     ELSE [e |-> NoExc, info |-> info]

\* _model_from_info filling in the format of a model that has no content
ModelFromInfoWithFormat(info, type) ==
  LET hdfs_path == info.path
      path == to_api_path(hdfs_path,
                          get_prefix_from_hdfs_path(hdfs_path, root_dir, shared_dir))
      name == IF path = <<>> THEN <<>> ELSE path[Len(path)]
      typ == IF type = "None"
             THEN IF info.type = "Directory" THEN "directory"
                  ELSE IF PathEndsWithIpynb(path) THEN "notebook"
                  ELSE "file"
             ELSE type
      size == IF typ # "directory" THEN info.size ELSE None
  IN [name |-> name, path |-> path, type |-> typ, size |-> size,
      content |-> None, format |-> IF typ = "directory" THEN "json" ELSE "None"]

\* _model_from_info computing the logical path against the private root only
ModelFromInfoPrivateRootOnly(info, type) ==
  LET hdfs_path == info.path
      path == to_api_path(hdfs_path, root_dir)
      name == IF path = <<>> THEN <<>> ELSE path[Len(path)]
      typ == IF type = "None"
             THEN IF info.type = "Directory" THEN "directory"
                  ELSE IF PathEndsWithIpynb(path) THEN "notebook"
                  ELSE "file"
             ELSE type
      size == IF typ # "directory" THEN info.size ELSE None
  IN [name |-> name, path |-> path, type |-> typ, size |-> size,
      content |-> None, format |-> "None"]

\* type "None" is Python's None: the type is then inferred.  Of the model's
\* fields, the timestamps, the mimetype and writable are left out
_model_from_info(info, type) ==
  LET hdfs_path == info.path
      path == to_api_path(hdfs_path,
                          get_prefix_from_hdfs_path(hdfs_path, root_dir, shared_dir))
      name == IF path = <<>> THEN <<>> ELSE path[Len(path)]
      typ == IF type = "None"
             THEN IF info.type = "Directory" THEN "directory"
                  ELSE IF PathEndsWithIpynb(path) THEN "notebook"
                  ELSE "file"
             ELSE type
      size == IF typ # "directory" THEN info.size ELSE None
  IN [name |-> name, path |-> path, type |-> typ, size |-> size,
      content |-> None, format |-> "None"]

\* _dir_model without the filter on names starting with '.'
DirModelListingHidden(f, path, hdfs_path, content, deny) ==
  LET build(chk, records) ==
        LET model == _model_from_info(chk.info, "directory")
            calls == <<Call("list", hdfs_path, records)>>
            contents == {_model_from_info(i, "None") : i \in records.val}
        IN IF chk.e.exc # "none" THEN Result(chk.e, f, <<>>, None)
           ELSE IF ~content THEN Result(NoExc, f, <<>>, model)
           ELSE IF records.err # "none"
                THEN Result(perm_to_403(records), f, calls, None)
           ELSE Result(NoExc, f, calls,
                       [model EXCEPT
                          !.content = [list |-> {c \in contents : should_list(c.name)}],
                          !.format = "json"])
  IN build(_info_and_check_kind(f, path, hdfs_path, "Directory"),
           list_dir(f, hdfs_path, deny))

_dir_model(f, path, hdfs_path, content, deny) ==
  LET build(chk, records) ==
        LET model == _model_from_info(chk.info, "directory")
            calls == <<Call("list", hdfs_path, records)>>
            contents == {_model_from_info(i, "None") : i \in records.val}
        IN IF chk.e.exc # "none" THEN Result(chk.e, f, <<>>, None)
           ELSE IF ~content THEN Result(NoExc, f, <<>>, model)
           ELSE IF records.err # "none"
                THEN Result(perm_to_403(records), f, calls, None)
           ELSE Result(NoExc, f, calls,
                       [model EXCEPT
                          !.content = [list |-> {c \in contents :
                                                   should_list(c.name)
                                                   /\ ~startswith_dot(c.name)}],
                          !.format = "json"])
  IN build(_info_and_check_kind(f, path, hdfs_path, "Directory"),
           list_dir(f, hdfs_path, deny))

\* _read_file answering in base64 whatever format is asked for
ReadFileAlwaysBase64(f, path, hdfs_path, format, deny) ==
  LET raise(e, cs) == [e |-> e, calls |-> cs, content |-> None, format |-> "None"]
      read(rd) ==
        IF rd.err # "none" THEN raise(perm_to_403(rd), <<Call("read", hdfs_path, rd)>>)
        ELSE [e |-> NoExc, calls |-> <<Call("read", hdfs_path, rd)>>,
              content |-> Str(encodebytes(rd.val)), format |-> "base64"]
  IN IF ~is_file(f, hdfs_path) THEN raise(HTTPError(400), <<>>)
     ELSE read(fs_read(f, hdfs_path, deny))

\* [e, calls, content, format]
_read_file(f, path, hdfs_path, format, deny) ==
  LET raise(e, cs) == [e |-> e, calls |-> cs, content |-> None, format |-> "None"]
      decode(rd, text) ==
        LET calls == <<Call("read", hdfs_path, rd)>>
            asText == [e |-> NoExc, calls |-> calls,
                       content |-> Str(text.str), format |-> "text"]
            asBase64 == [e |-> NoExc, calls |-> calls,
                         content |-> Str(encodebytes(rd.val)), format |-> "base64"]
        IN IF rd.err # "none" THEN raise(perm_to_403(rd), calls)
           ELSE IF format = "None" THEN (IF text.ok THEN asText ELSE asBase64)
           ELSE IF format = "text"
                THEN (IF text.ok THEN asText ELSE raise(HTTPError(400), calls))
           ELSE asBase64
      read(rd) == decode(rd, decode_utf8(rd.val))
  IN IF ~is_file(f, hdfs_path) THEN raise(HTTPError(400), <<>>)
     ELSE read(fs_read(f, hdfs_path, deny))

_file_model(f, path, hdfs_path, content, format, deny) ==
  LET build(chk, rd) ==
        LET model == _model_from_info(chk.info, "file")
        IN IF chk.e.exc # "none" THEN Result(chk.e, f, <<>>, None)
           ELSE IF ~content THEN Result(NoExc, f, <<>>, model)
           ELSE IF rd.e.exc # "none" THEN Result(rd.e, f, rd.calls, None)
           ELSE Result(NoExc, f, rd.calls,
                       [model EXCEPT !.content = rd.content, !.format = rd.format])
  IN build(_info_and_check_kind(f, path, hdfs_path, "File"),
           _read_file(f, path, hdfs_path, format, deny))

\* The notebook format (nbformat) is an external collaborator: one document,
\* NbDoc, stands for the well-formed notebooks and NbText for its serialisation
NbDoc == [nb |-> "doc"]

NbText == <<123, 125>>

\* [e, calls, content]
_read_notebook(f, path, hdfs_path, deny) ==
  LET parse(rd, text) ==
        LET calls == <<Call("read", hdfs_path, rd)>>
        IN IF rd.err # "none"
           THEN [e |-> perm_to_403(rd), calls |-> calls, content |-> None]
           ELSE IF text.ok /\ text.str = NbText
                THEN [e |-> NoExc, calls |-> calls, content |-> NbDoc]
           ELSE [e |-> HTTPError(400), calls |-> calls, content |-> None]
      read(rd) == parse(rd, decode_utf8(rd.val))
  IN read(fs_read(f, hdfs_path, deny))

_notebook_model(f, path, hdfs_path, content, deny) ==
  LET build(chk, rd) ==
        LET model == _model_from_info(chk.info, "notebook")
        IN IF chk.e.exc # "none" THEN Result(chk.e, f, <<>>, None)
           ELSE IF ~content THEN Result(NoExc, f, <<>>, model)
           ELSE IF rd.e.exc # "none" THEN Result(rd.e, f, rd.calls, None)
           ELSE Result(NoExc, f, rd.calls,
                       [model EXCEPT !.content = rd.content, !.format = "json"])
  IN build(_info_and_check_kind(f, path, hdfs_path, "File"),
           _read_notebook(f, path, hdfs_path, deny))

\* get without the refusal of hidden paths
GetServingHidden(f, path, content, type, format, deny) ==
  LET dispatch(hdfs_path) ==
        LET typ == IF type = "None" THEN infer_type(f, hdfs_path) ELSE type
        IN IF ~path_exist(f, hdfs_path) THEN Result(HTTPError(404), f, <<>>, None)
           ELSE IF typ = "directory"
                THEN _dir_model(f, path, hdfs_path, content, deny)
           ELSE IF typ = "notebook"
                THEN _notebook_model(f, path, hdfs_path, content, deny)
           ELSE _file_model(f, path, hdfs_path, content, format, deny)
  IN dispatch(to_fs_path(path, get_prefix_from_fs_path(path, root_dir, shared_dir)))

get(f, path, content, type, format, deny) ==
  LET dispatch(hdfs_path) ==
        LET typ == IF type = "None" THEN infer_type(f, hdfs_path) ELSE type
        IN IF ~path_exist(f, hdfs_path) THEN Result(HTTPError(404), f, <<>>, None)
           ELSE IF /\ ~allow_hidden
                   /\ is_hidden(hdfs_path,
                                get_prefix_from_hdfs_path(hdfs_path, root_dir,
                                                          shared_dir))
                THEN Result(HTTPError(404), f, <<>>, None)
           ELSE IF typ = "directory"
                THEN _dir_model(f, path, hdfs_path, content, deny)
           ELSE IF typ = "notebook"
                THEN _notebook_model(f, path, hdfs_path, content, deny)
           ELSE _file_model(f, path, hdfs_path, content, format, deny)
  IN dispatch(to_fs_path(path, get_prefix_from_fs_path(path, root_dir, shared_dir)))

\* _save_directory refusing a path that is already taken
SaveDirectoryRefusingExisting(f, path, hdfs_path, deny) ==
  LET create(mk) == Result(perm_to_403(mk), mk.fs,
                           <<Call("create", hdfs_path, mk)>>, None)
  IN IF /\ ~allow_hidden
        /\ is_hidden(hdfs_path,
                     get_prefix_from_hdfs_path(hdfs_path, root_dir, shared_dir))
     THEN Result(HTTPError(400), f, <<>>, None)
     ELSE IF ~path_exist(f, hdfs_path) THEN create(fs_create_dir(f, hdfs_path, deny))
     ELSE Result(HTTPError(400), f, <<>>, None)

_save_directory(f, path, hdfs_path, deny) ==
  LET create(mk) == Result(perm_to_403(mk), mk.fs,
                           <<Call("create", hdfs_path, mk)>>, None)
  IN IF /\ ~allow_hidden
        /\ is_hidden(hdfs_path,
                     get_prefix_from_hdfs_path(hdfs_path, root_dir, shared_dir))
     THEN Result(HTTPError(400), f, <<>>, None)
     ELSE IF ~exists(f, hdfs_path) THEN create(fs_create_dir(f, hdfs_path, deny))
     ELSE IF ~is_dir(f, hdfs_path) THEN Result(HTTPError(400), f, <<>>, None)
     ELSE Result(NoExc, f, <<>>, None)

\* a caller's model is a Python dict: a function whose domain is its keys
_save_file(f, path, hdfs_path, model, deny) ==
  LET written(wr) == Result(perm_to_403(wr), wr.fs,
                            <<Call("write", hdfs_path, wr)>>, None)
      write(enc) == IF ~enc.ok THEN Result(HTTPError(400), f, <<>>, None)
                    ELSE written(fs_write(f, hdfs_path, enc.bytes, deny))
      b64(asc) == IF ~asc.ok THEN asc ELSE decodebytes(asc.bytes)
      encode(format, content) ==
        IF format \notin {"text", "base64"}
        THEN Result(HTTPError(400), f, <<>>, None)
        ELSE IF ~IsStr(content) THEN Result(HTTPError(400), f, <<>>, None)
        ELSE IF format = "text" THEN write(encode_utf8(content.str))
        ELSE write(b64(encode_ascii(content.str)))
  IN IF "format" \notin DOMAIN model THEN Result(Raised("KeyError"), f, <<>>, None)
     ELSE encode(model.format, model.content)

\* nbformat.from_dict, check_and_sign and nbformat.writes raise on a content
\* that is no notebook document; validate_notebook_model does not raise
_save_notebook(f, path, hdfs_path, model, deny) ==
  LET written(wr) == Result(perm_to_403(wr), wr.fs,
                            <<Call("write", hdfs_path, wr)>>, None)
  IN IF model.content # NbDoc THEN Result(Raised("TypeError"), f, <<>>, None)
     ELSE written(fs_write(f, hdfs_path, encode_utf8(NbText).bytes, deny))

save(f, model, path, deny) ==
  LET reread(w, g) == Result(ExcOf(g), w.fs, w.calls \o g.calls, g.ret)
      finish(w) == IF Failed(w) THEN w
                   ELSE reread(w, get(w.fs, path, FALSE, model.type, "None", deny))
      write(typ, hdfs_path) ==
        IF typ = "notebook"
        THEN finish(_save_notebook(f, path, hdfs_path, model, deny))
        ELSE IF typ = "file"
             THEN finish(_save_file(f, path, hdfs_path, model, deny))
        ELSE IF typ = "directory"
             THEN finish(_save_directory(f, path, hdfs_path, deny))
        ELSE Result(HTTPError(400), f, <<>>, None)
  IN IF "type" \notin DOMAIN model THEN Result(HTTPError(400), f, <<>>, None)
     ELSE IF "content" \notin DOMAIN model /\ model.type # "directory"
          THEN Result(HTTPError(400), f, <<>>, None)
     ELSE write(model.type,
                to_fs_path(path, get_prefix_from_fs_path(path, root_dir, shared_dir)))

\* _is_dir_empty without the checkpoint directory set aside
IsDirEmptyCountingCheckpoints(f, path, hdfs_path, deny) ==
  LET check(files) ==
        LET calls == <<Call("list", hdfs_path, files)>>
        IN IF files.err # "none"
           THEN [e |-> perm_to_403(files), calls |-> calls, empty |-> FALSE]
           ELSE [e |-> NoExc, calls |-> calls, empty |-> files.val = {}]
  IN check(list_dir(f, hdfs_path, deny))

\* [e, calls, empty]
_is_dir_empty(f, path, hdfs_path, deny) ==
  LET check(files) ==
        LET calls == <<Call("list", hdfs_path, files)>>
            cp_dir == checkpoint_dir
            names == {i.path[Len(i.path)] : i \in files.val} \ {cp_dir}
        IN IF files.err # "none"
           THEN [e |-> perm_to_403(files), calls |-> calls, empty |-> FALSE]
           ELSE IF files.val = {} THEN [e |-> NoExc, calls |-> calls, empty |-> TRUE]
           ELSE [e |-> NoExc, calls |-> calls, empty |-> names = {}]
  IN check(list_dir(f, hdfs_path, deny))

\* delete_file calling delete_dir outside perm_to_403
DeleteDirOutsidePermTo403(f, path, deny) ==
  LET deleted(cs, rm, hdfs_path) ==
        Result(perm_to_403(rm), rm.fs, Append(cs, Call("delete", hdfs_path, rm)), None)
      unwrapped(cs, rm, hdfs_path) ==
        Result(IF rm.err = "perm" THEN Raised("PermissionError") ELSE perm_to_403(rm),
               rm.fs, Append(cs, Call("delete", hdfs_path, rm)), None)
      directory(em, hdfs_path) ==
        IF em.e.exc # "none" THEN Result(em.e, f, em.calls, None)
        ELSE IF ~em.empty THEN Result(HTTPError(400), f, em.calls, None)
        ELSE unwrapped(em.calls, fs_delete_dir(f, hdfs_path, deny), hdfs_path)
      delete(hdfs_path) ==
        IF ~path_exist(f, hdfs_path) THEN Result(HTTPError(404), f, <<>>, None)
        ELSE IF is_dir(f, hdfs_path)
             THEN directory(_is_dir_empty(f, path, hdfs_path, deny), hdfs_path)
        ELSE deleted(<<>>, fs_delete_file(f, hdfs_path, deny), hdfs_path)
  IN delete(to_fs_path(path, get_prefix_from_fs_path(path, root_dir, shared_dir)))

\* delete_file without the check that the path exists
DeleteWithoutExistenceCheck(f, path, deny) ==
  LET deleted(cs, rm, hdfs_path) ==
        Result(perm_to_403(rm), rm.fs, Append(cs, Call("delete", hdfs_path, rm)), None)
      directory(em, hdfs_path) ==
        IF em.e.exc # "none" THEN Result(em.e, f, em.calls, None)
        ELSE IF ~em.empty THEN Result(HTTPError(400), f, em.calls, None)
        ELSE deleted(em.calls, fs_delete_dir(f, hdfs_path, deny), hdfs_path)
      delete(hdfs_path) ==
        IF is_dir(f, hdfs_path)
        THEN directory(_is_dir_empty(f, path, hdfs_path, deny), hdfs_path)
        ELSE deleted(<<>>, fs_delete_file(f, hdfs_path, deny), hdfs_path)
  IN delete(to_fs_path(path, get_prefix_from_fs_path(path, root_dir, shared_dir)))

delete_file(f, path, deny) ==
  LET deleted(cs, rm, hdfs_path) ==
        Result(perm_to_403(rm), rm.fs, Append(cs, Call("delete", hdfs_path, rm)), None)
      directory(em, hdfs_path) ==
        IF em.e.exc # "none" THEN Result(em.e, f, em.calls, None)
        ELSE IF ~em.empty THEN Result(HTTPError(400), f, em.calls, None)
        ELSE deleted(em.calls, fs_delete_dir(f, hdfs_path, deny), hdfs_path)
      delete(hdfs_path) ==
        IF ~path_exist(f, hdfs_path) THEN Result(HTTPError(404), f, <<>>, None)
        ELSE IF is_dir(f, hdfs_path)
             THEN directory(_is_dir_empty(f, path, hdfs_path, deny), hdfs_path)
        ELSE deleted(<<>>, fs_delete_file(f, hdfs_path, deny), hdfs_path)
  IN delete(to_fs_path(path, get_prefix_from_fs_path(path, root_dir, shared_dir)))

\* rename_file without the check of the destination
RenameWithoutDestinationCheck(f, old_path, new_path, deny) ==
  LET moved(mv, old_hdfs_path) ==
        LET calls == <<Call("move", old_hdfs_path, mv)>>
        IN IF mv.err = "perm" THEN Result(perm_to_403(mv), f, calls, None)
           ELSE IF mv.err # "none" THEN Result(HTTPError(500), f, calls, None)
           ELSE Result(NoExc, mv.fs, calls, None)
      rename(old_hdfs_path, new_hdfs_path) ==
        moved(fs_move(f, old_hdfs_path, new_hdfs_path, deny), old_hdfs_path)
  IN IF old_path = new_path THEN Result(NoExc, f, <<>>, None)
     ELSE rename(to_fs_path(old_path,
                            get_prefix_from_fs_path(old_path, root_dir, shared_dir)),
                 to_fs_path(new_path,
                            get_prefix_from_fs_path(new_path, root_dir, shared_dir)))

\* rename_file without the return for equal paths
RenameWithoutEqualityReturn(f, old_path, new_path, deny) ==
  LET moved(mv, old_hdfs_path) ==
        LET calls == <<Call("move", old_hdfs_path, mv)>>
        IN IF mv.err = "perm" THEN Result(perm_to_403(mv), f, calls, None)
           ELSE IF mv.err # "none" THEN Result(HTTPError(500), f, calls, None)
           ELSE Result(NoExc, mv.fs, calls, None)
      rename(old_hdfs_path, new_hdfs_path) ==
        IF path_exist(f, new_hdfs_path) THEN Result(HTTPError(409), f, <<>>, None)
        ELSE moved(fs_move(f, old_hdfs_path, new_hdfs_path, deny), old_hdfs_path)
  IN rename(to_fs_path(old_path,
                       get_prefix_from_fs_path(old_path, root_dir, shared_dir)),
            to_fs_path(new_path,
                       get_prefix_from_fs_path(new_path, root_dir, shared_dir)))

\* rename_file without the except clause that wraps a failed move
RenameLettingMoveErrorsEscape(f, old_path, new_path, deny) ==
  LET moved(mv, old_hdfs_path) ==
        LET calls == <<Call("move", old_hdfs_path, mv)>>
        IN IF mv.err # "none" THEN Result(perm_to_403(mv), f, calls, None)
           ELSE Result(NoExc, mv.fs, calls, None)
      rename(old_hdfs_path, new_hdfs_path) ==
        IF path_exist(f, new_hdfs_path) THEN Result(HTTPError(409), f, <<>>, None)
        ELSE moved(fs_move(f, old_hdfs_path, new_hdfs_path, deny), old_hdfs_path)
  IN IF old_path = new_path THEN Result(NoExc, f, <<>>, None)
     ELSE rename(to_fs_path(old_path,
                            get_prefix_from_fs_path(old_path, root_dir, shared_dir)),
                 to_fs_path(new_path,
                            get_prefix_from_fs_path(new_path, root_dir, shared_dir)))

rename_file(f, old_path, new_path, deny) ==
  LET moved(mv, old_hdfs_path) ==
        LET calls == <<Call("move", old_hdfs_path, mv)>>
        IN IF mv.err = "perm" THEN Result(perm_to_403(mv), f, calls, None)
           ELSE IF mv.err # "none" THEN Result(HTTPError(500), f, calls, None)
           ELSE Result(NoExc, mv.fs, calls, None)
      rename(old_hdfs_path, new_hdfs_path) ==
        IF path_exist(f, new_hdfs_path) THEN Result(HTTPError(409), f, <<>>, None)
        ELSE moved(fs_move(f, old_hdfs_path, new_hdfs_path, deny), old_hdfs_path)
  IN IF old_path = new_path THEN Result(NoExc, f, <<>>, None)
     ELSE rename(to_fs_path(old_path,
                            get_prefix_from_fs_path(old_path, root_dir, shared_dir)),
                 to_fs_path(new_path,
                            get_prefix_from_fs_path(new_path, root_dir, shared_dir)))

\* rename_file up to its check of the destination (lines 375-382): done with
\* the result r, or not done, the move still to be issued
rename_check(f, old_path, new_path) ==
  LET check(new_hdfs_path) ==
        IF path_exist(f, new_hdfs_path)
        THEN [done |-> TRUE, r |-> Result(HTTPError(409), f, <<>>, None)]
        ELSE [done |-> FALSE, r |-> Result(NoExc, f, <<>>, None)]
  IN IF old_path = new_path
     THEN [done |-> TRUE, r |-> Result(NoExc, f, <<>>, None)]
     ELSE check(to_fs_path(new_path,
                           get_prefix_from_fs_path(new_path, root_dir, shared_dir)))

\* the move of rename_file refusing a destination that exists by now
RenameMoveRecheckingDestination(f, old_path, new_path, mv) ==
  LET moved(old_hdfs_path, new_hdfs_path) ==
        LET calls == <<Call("move", old_hdfs_path, mv)>>
        IN IF path_exist(f, new_hdfs_path) THEN Result(HTTPError(409), f, <<>>, None)
           ELSE IF mv.err = "perm" THEN Result(perm_to_403(mv), f, calls, None)
           ELSE IF mv.err # "none" THEN Result(HTTPError(500), f, calls, None)
           ELSE Result(NoExc, mv.fs, calls, None)
  IN moved(to_fs_path(old_path,
                      get_prefix_from_fs_path(old_path, root_dir, shared_dir)),
           to_fs_path(new_path,
                      get_prefix_from_fs_path(new_path, root_dir, shared_dir)))

\* rename_file from its move on (lines 384-394), the backend answering mv
rename_move(f, old_path, new_path, mv) ==
  LET moved(old_hdfs_path, new_hdfs_path) ==
        LET calls == <<Call("move", old_hdfs_path, mv)>>
        IN IF mv.err = "perm" THEN Result(perm_to_403(mv), f, calls, None)
           ELSE IF mv.err # "none" THEN Result(HTTPError(500), f, calls, None)
           ELSE Result(NoExc, mv.fs, calls, None)
  IN moved(to_fs_path(old_path,
                      get_prefix_from_fs_path(old_path, root_dir, shared_dir)),
           to_fs_path(new_path,
                      get_prefix_from_fs_path(new_path, root_dir, shared_dir)))

\* what fs.move answers.  Onto a missing destination, and for a file onto a
\* file (which the HDFS client replaces), the answer is fs_move's.  Onto an
\* existing directory the documented contract (an empty directory is replaced)
\* and the HDFS rename (the source goes below the directory) differ: both are
\* outcomes
move_outcomes(f, src, dst, deny) ==
  IF Stat(f, dst) = "Directory" /\ Stat(f, src) # "NotFound"
  THEN {fs_move(f, src, dst, deny), fs_move(f, src, Append(dst, src[Len(src)]), deny)}
  ELSE {fs_move(f, src, dst, deny)}

(***************************************************************************)
(* Inputs and bounds                                                       *)
(***************************************************************************)
\* the most entries the file system holds, its roots included
MaxEntries == 6

\* the longest physical path
MaxDepth == 4

WithinBounds(f) ==
  /\ Cardinality(DOMAIN f) <= MaxEntries
  /\ \A q \in DOMAIN f : Len(q) <= MaxDepth

NameD == <<"d">>

NameF == <<"f">>

NameHidden == <<".", "h">>

NameNotebook == <<"n", ".", "ipynb">>

NamePycache == <<"__pycache__">>

\* the logical paths callers use
LogicalPaths ==
  { <<>>, <<NameD>>, <<NameD, NameF>>, <<NameD, checkpoint_dir>>, <<NameHidden>>,
    <<NameNotebook>>, <<NamePycache>>, <<SharedSegment>>, <<(<<"u">>), NameD>> }

\* 'h' and e-acute; a lone surrogate; '/w==' with and without the newline of
\* encodebytes (the byte 0xFF); 'a' (no base64); e-acute (no ASCII)
TextHe == <<104, 233>>

TextSurrogate == <<55296>>

B64Canonical == <<47, 119, 61, 61, 10>>

B64NoNewline == <<47, 119, 61, 61>>

B64Malformed == <<97>>

TextNonAscii == <<233>>

\* the models callers save
SaveModels ==
  { <<>>,
    [type |-> "file"],
    [type |-> "directory"],
    [type |-> "symlink", content |-> Str(TextHe), format |-> "text"],
    [type |-> "notebook", content |-> NbDoc],
    [type |-> "notebook", content |-> Str(TextHe)],
    [type |-> "file", content |-> Str(TextHe)],
    [type |-> "file", content |-> Str(TextHe), format |-> "json"],
    [type |-> "file", content |-> Str(TextHe), format |-> "None"],
    [type |-> "file", content |-> None, format |-> "text"] }
  \cup { [type |-> "file", content |-> Str(c), format |-> "text"] :
           c \in {TextHe, TextSurrogate} }
  \cup { [type |-> "file", content |-> Str(c), format |-> "base64"] :
           c \in {B64Canonical, B64NoNewline, B64Malformed, TextNonAscii} }

\* the models the second of two callers saves
OtherModels ==
  { [type |-> "directory"],
    [type |-> "notebook", content |-> NbDoc],
    [type |-> "file", content |-> Str(TextHe), format |-> "text"] }

\* the paths of the renames that a second caller's save may cross
RaceSources == { <<NameD>>, <<NameD, NameF>>, <<NameNotebook>>, <<SharedSegment>> }

RaceDestinations == RaceSources \cup { <<NamePycache>> }

\* the paths callers rename: every one but the root itself
RenameSources == LogicalPaths \ {<<>>}

GetTypes == {"None", "directory", "file", "notebook"}

GetFormats == {"None", "text", "base64"}

IOKinds == {"read", "write", "list", "create", "delete", "move"}

\* what the name node refuses during one operation: nothing, or one kind of
\* call among those the operation can issue
DenySets(kinds) == {{}} \cup {{k} : k \in kinds}

(***************************************************************************)
(* Specification.  A caller makes one call at a time: the call runs to its *)
(* end and leaves its record in last; Return hands the outcome back, after *)
(* which the next call can be made.  SaveAgain is the caller repeating the *)
(* save that has just succeeded, before anything else happens.             *)
(***************************************************************************)
NoModel == <<>>

Record(op, path, new_path, content, type, format, model, r) ==
  [op |-> op, path |-> path, new_path |-> new_path, content |-> content,
   type |-> type, format |-> format, model |-> model,
   exc |-> r.exc, code |-> r.code, ret |-> r.ret, calls |-> r.calls, pre |-> fs]

Idle ==
  [op |-> "idle", path |-> <<>>, new_path |-> <<>>, content |-> FALSE,
   type |-> "None", format |-> "None", model |-> NoModel,
   exc |-> "none", code |-> 0, ret |-> None, calls |-> <<>>, pre |-> <<>>]

\* __init__ with create_root_dir_on_startup: ensure_root_directory has made
\* root_dir and root_dir/shared; the shared root is provisioned
InitialFs ==
  [q \in {<<>>, root_dir, Append(root_dir, SharedSegment), shared_dir} |-> DirEntry]

Init ==
  /\ fs = InitialFs
  /\ allow_hidden \in BOOLEAN
  /\ last = Idle

Get ==
  /\ last = Idle
  /\ \E path \in LogicalPaths, content \in BOOLEAN, type \in GetTypes,
        format \in GetFormats, deny \in DenySets({"read", "list"}) :
       \E r \in {get(fs, path, content, type, format, deny)} :
          /\ last' = Record("get", path, <<>>, content, type, format, NoModel, r)
          /\ UNCHANGED <<fs, allow_hidden>>

Save ==
  /\ last = Idle
  /\ \E path \in LogicalPaths, model \in SaveModels,
        deny \in DenySets({"write", "create"}) :
       \E r \in {save(fs, model, path, deny)} :
          /\ WithinBounds(r.fs)
          /\ fs' = r.fs
          /\ last' = Record("save", path, <<>>, FALSE, "None", "None", model, r)
          /\ UNCHANGED allow_hidden

SaveAgain ==
  /\ last.op = "save"
  /\ last.exc = "none"
  /\ \E deny \in DenySets({"write", "create"}) :
       \E r \in {save(fs, last.model, last.path, deny)} :
          /\ WithinBounds(r.fs)
          /\ fs' = r.fs
          /\ last' = Record("save_again", last.path, <<>>, FALSE, "None", "None",
                            last.model, r)
          /\ UNCHANGED allow_hidden

DeleteFile ==
  /\ last = Idle
  /\ \E path \in LogicalPaths, deny \in DenySets({"list", "delete"}) :
       \E r \in {delete_file(fs, path, deny)} :
          /\ fs' = r.fs
          /\ last' = Record("delete_file", path, <<>>, FALSE, "None", "None",
                            NoModel, r)
          /\ UNCHANGED allow_hidden

RenameFile ==
  /\ last = Idle
  /\ \E old_path \in RenameSources, new_path \in LogicalPaths,
        deny \in DenySets({"move"}) :
       \E r \in {rename_file(fs, old_path, new_path, deny)} :
          /\ WithinBounds(r.fs)
          /\ fs' = r.fs
          /\ last' = Record("rename_file", old_path, new_path, FALSE, "None",
                            "None", NoModel, r)
          /\ UNCHANGED allow_hidden

Return ==
  /\ last # Idle
  /\ last' = Idle
  /\ UNCHANGED <<fs, allow_hidden>>

Next == Get \/ Save \/ SaveAgain \/ DeleteFile \/ RenameFile \/ Return

Spec == Init /\ [][Next]_vars

(***************************************************************************)
(* Two callers.  rename_file takes no lock: the first caller's rename is    *)
(* two steps, its check of the destination (RenameCheck) and its move       *)
(* (RenameMove), and between the two last holds the rename in progress      *)
(* (op "rename_checked", pre the file system the check saw) while a second  *)
(* caller may make one save (OtherSave, taken in one step, after which the  *)
(* op is "rename_raced").                                                   *)
(***************************************************************************)
RenameCheck ==
  /\ last = Idle
  /\ \E old_path \in RaceSources, new_path \in RaceDestinations :
       \E c \in {rename_check(fs, old_path, new_path)} :
          /\ last' = Record(IF c.done THEN "rename_file" ELSE "rename_checked",
                            old_path, new_path, FALSE, "None", "None", NoModel, c.r)
          /\ UNCHANGED <<fs, allow_hidden>>

OtherSave ==
  /\ last.op = "rename_checked"
  /\ \E path \in LogicalPaths, model \in OtherModels :
       \E r \in {save(fs, model, path, {})} :
          /\ WithinBounds(r.fs)
          /\ fs' = r.fs
          /\ last' = [last EXCEPT !.op = "rename_raced"]
          /\ UNCHANGED allow_hidden

RenameMove ==
  /\ last.op \in {"rename_checked", "rename_raced"}
  /\ \E deny \in DenySets({"move"}) :
       \E mv \in move_outcomes(fs, to_fs_path(last.path,
                                   get_prefix_from_fs_path(last.path, root_dir,
                                                           shared_dir)),
                                to_fs_path(last.new_path,
                                   get_prefix_from_fs_path(last.new_path, root_dir,
                                                           shared_dir)), deny) :
         \E r \in {rename_move(fs, last.path, last.new_path, mv)} :
            /\ WithinBounds(r.fs)
            /\ fs' = r.fs
            /\ last' = Record("rename_moved", last.path, last.new_path, FALSE,
                              "None", "None", NoModel, r)
            /\ UNCHANGED allow_hidden

NextRace == Save \/ Return \/ RenameCheck \/ OtherSave \/ RenameMove

SpecRace == Init /\ [][NextRace]_vars

(***************************************************************************)
(* Properties                                                              *)
(***************************************************************************)
\* the physical path a logical path is served from
Phys(p) == to_fs_path(p, get_prefix_from_fs_path(p, root_dir, shared_dir))

LastName(q) == q[Len(q)]

\* the backend refused none of the calls of the last operation
NoneDenied == \A i \in 1..Len(last.calls) : last.calls[i].err # "perm"

FailedWith(c) == last.exc = "HTTPError" /\ last.code = c

Succeeded == last.exc = "none"

\* C1: rename_file(old, new) with old # new onto a destination that exists, as
\* a file or a directory, fails with 409, issues no move (no backend call at
\* all) and leaves the file system, so the source and the destination, as it was
C1_RenameOntoExistingFails ==
  ( /\ last.op = "rename_file"
    /\ last.path # last.new_path
    /\ Phys(last.new_path) \in DOMAIN last.pre )
  => /\ FailedWith(409)
     /\ last.calls = <<>>
     /\ fs = last.pre

C1_Witness ==
  /\ last.op = "rename_file"
  /\ last.path # last.new_path
  /\ Stat(last.pre, Phys(last.path)) = "File"
  /\ Stat(last.pre, Phys(last.new_path)) = "File"
  /\ last.pre[Phys(last.path)] # last.pre[Phys(last.new_path)]
  /\ FailedWith(409)

\* C2: delete_file on a directory whose children are none, or only the
\* checkpoint directory name, succeeds and removes it (when the backend refuses
\* no call); on a directory with any other child it changes nothing and fails
\* with 400 (when the backend does not refuse the listing)
C2_DeleteDirectory ==
  ( /\ last.op = "delete_file"
    /\ Stat(last.pre, Phys(last.path)) = "Directory" )
  => IF {LastName(q) : q \in Children(last.pre, Phys(last.path))} \subseteq {checkpoint_dir}
     THEN NoneDenied => Succeeded /\ Phys(last.path) \notin DOMAIN fs
     ELSE /\ fs = last.pre
          /\ NoneDenied => FailedWith(400)

C2_Witness ==
  /\ last.op = "delete_file"
  /\ Stat(last.pre, Phys(last.path)) = "Directory"
  /\ {LastName(q) : q \in Children(last.pre, Phys(last.path))} = {checkpoint_dir}
  /\ Succeeded
  /\ Phys(last.path) \notin DOMAIN fs

\* the last operation is a successful save of a model of type file
SavedFile ==
  /\ last.op = "save"
  /\ Succeeded
  /\ "type" \in DOMAIN last.model
  /\ last.model.type = "file"

\* get of the path just saved, with content, in the format it was saved in
GetSaved(type) == get(fs, last.path, TRUE, type, last.model.format, {})

\* C3 as stated: after a successful save of a file in format f with content c,
\* get of the same path with content and format f returns format f and content c
C3_RoundTripAsStated ==
  SavedFile =>
    \E g \in {GetSaved("None")} :
      /\ g.exc = "none"
      /\ g.ret.format = last.model.format
      /\ g.ret.content = last.model.content

\* base64.encodebytes(base64.decodebytes(c)) for a str c
Reencoded(c) == Str(encodebytes(decodebytes(c.str).bytes))

\* C3 amended: after a successful save of a file in format f with content c, get
\* of the same path as a file (type 'file', or no type when the path does not
\* end in '.ipynb') with content and format f returns format f and, for text,
\* content c; for base64, the content that decodes to the bytes c decodes to,
\* in the form encodebytes gives them, so c itself when c has that form
C3_RoundTrip ==
  SavedFile =>
    \A type \in {"file"} \cup (IF PathEndsWithIpynb(last.path) THEN {} ELSE {"None"}) :
      \E g \in {GetSaved(type)} :
        /\ g.exc = "none"
        /\ g.ret.format = last.model.format
        /\ IF last.model.format = "text"
           THEN g.ret.content = last.model.content
           ELSE /\ decodebytes(g.ret.content.str) = decodebytes(last.model.content.str)
                /\ g.ret.content = Reencoded(last.model.content)
                /\ (last.model.content = Str(B64Canonical)
                      => g.ret.content = last.model.content)

C3_Witness ==
  /\ SavedFile
  /\ last.model.format = "base64"
  /\ last.model.content = Str(B64NoNewline)
  /\ GetSaved("file").ret.content = Str(B64Canonical)

HiddenPath(p) == \E i \in 1..Len(p) : startswith_dot(p[i])

\* C5: get fails with 404 exactly when the physical path does not exist or the
\* path is hidden while allow_hidden is false, and then it has issued no
\* backend I/O call and the file system is as it was
C5_GetNotFound ==
  last.op = "get"
  => /\ FailedWith(404) <=> ( \/ Phys(last.path) \notin DOMAIN last.pre
                              \/ ~allow_hidden /\ HiddenPath(last.path) )
     /\ FailedWith(404) => last.calls = <<>> /\ fs = last.pre

C5_Witness ==
  /\ last.op = "get"
  /\ Phys(last.path) \in DOMAIN last.pre
  /\ HiddenPath(last.path)
  /\ FailedWith(404)

\* a model has content exactly when it was asked for, and a format exactly
\* when it has content
WellFormedModel(m, requested) ==
  /\ m.content # None <=> requested
  /\ m.format # "None" <=> m.content # None

\* C6: every model get or save returns has content if and only if the caller
\* asked for it and a format if and only if it has content, as has every child
\* model of a directory listing (no content asked); save returns neither
C6_ContentAndFormat ==
  ( /\ last.op \in {"get", "save", "save_again"}
    /\ Succeeded )
  => /\ WellFormedModel(last.ret, last.op = "get" /\ last.content)
     /\ "list" \in DOMAIN last.ret.content
          => \A c \in last.ret.content.list : WellFormedModel(c, FALSE)

C6_Witness ==
  /\ last.op = "get"
  /\ Succeeded
  /\ "list" \in DOMAIN last.ret.content
  /\ \E c \in last.ret.content.list : c.type = "directory"
  /\ \E c \in last.ret.content.list : c.type = "file"

\* the children of a directory that a listing shows
Listed(f, dir) ==
  {q \in Children(f, dir) : ~startswith_dot(LastName(q)) /\ should_list(LastName(q))}

\* what a listing says of a child: its name, type and size
Shown(f, q) ==
  [name |-> LastName(q),
   type |-> IF f[q].type = "Directory" THEN "directory"
            ELSE IF endswith_ipynb(LastName(q)) THEN "notebook"
            ELSE "file",
   size |-> IF f[q].type = "Directory" THEN None ELSE IntVal(Len(f[q].data))]

\* C7: get of a directory with content returns one model for each immediate
\* child in the backend whose name does not start with '.' and that should_list
\* accepts, and no other, each with the child's name, type and, for a file,
\* size; hidden children are left out whatever allow_hidden is
C7_DirectoryListing ==
  ( /\ last.op = "get"
    /\ last.content
    /\ Succeeded
    /\ last.ret.type = "directory" )
  => /\ {[name |-> c.name, type |-> c.type, size |-> c.size] :
           c \in last.ret.content.list}
        = {Shown(last.pre, q) : q \in Listed(last.pre, Phys(last.path))}
     /\ Cardinality(last.ret.content.list)
        = Cardinality(Listed(last.pre, Phys(last.path)))
     /\ \A c \in last.ret.content.list : c.path = Append(last.path, c.name)

C7_Witness ==
  /\ last.op = "get"
  /\ last.content
  /\ Succeeded
  /\ last.ret.type = "directory"
  /\ allow_hidden
  /\ \E q \in Children(last.pre, Phys(last.path)) : startswith_dot(LastName(q))
  /\ \E c \in last.ret.content.list : c.type = "file" /\ c.size = IntVal(3)

\* C8: whenever the backend refuses, for lack of permission, a read, write,
\* list, create, delete or move that get, save, delete_file or rename_file
\* issues, the operation ends with 403 and with no other error
C8_PermissionIs403 ==
  ( /\ last.op \in {"get", "save", "save_again", "delete_file", "rename_file"}
    /\ \E i \in 1..Len(last.calls) : last.calls[i].err = "perm" )
  => FailedWith(403)

C8_Witness ==
  /\ last.op = "delete_file"
  /\ Len(last.calls) = 2
  /\ last.calls[1].err = "none"
  /\ last.calls[2].kind = "delete"
  /\ last.calls[2].err = "perm"
  /\ FailedWith(403)

\* the caller's input that save is to refuse: no type, no content for another
\* type than directory, a type that is not handled, a file with a format other
\* than 'text' and 'base64' (or none), a file with base64 content that is no
\* base64
MalformedModel(m) ==
  \/ "type" \notin DOMAIN m
  \/ "content" \notin DOMAIN m /\ m.type # "directory"
  \/ m.type \notin {"notebook", "file", "directory"}
  \/ /\ m.type = "file"
     /\ \/ "format" \notin DOMAIN m
        \/ m.format \notin {"text", "base64"}
        \/ /\ m.format = "base64"
           /\ IsStr(m.content)
           /\ \/ ~encode_ascii(m.content.str).ok
              \/ ~decodebytes(m.content.str).ok

\* C9: save refuses a malformed model with 400 before it issues a backend call,
\* and the file system is as it was
C9_MalformedModelIs400 ==
  ( /\ last.op = "save"
    /\ MalformedModel(last.model) )
  => /\ FailedWith(400)
     /\ last.calls = <<>>
     /\ fs = last.pre

\* C10: delete_file of a path that does not exist fails with 404, issues no
\* backend call and changes nothing; delete_file of an existing file, and of any
\* entry that has no children left, succeeds (when the backend refuses no call):
\* the path is gone, get of it fails with 404, the listing of its parent does
\* not show it, and every other entry is as it was
C10_DeleteFile ==
  last.op = "delete_file"
  => /\ Phys(last.path) \notin DOMAIN last.pre
          => FailedWith(404) /\ last.calls = <<>> /\ fs = last.pre
     /\ ( /\ Phys(last.path) \in DOMAIN last.pre
          /\ \/ last.pre[Phys(last.path)].type = "File"
             \/ Children(last.pre, Phys(last.path)) = {}
          /\ NoneDenied )
          => /\ Succeeded
             /\ fs = [q \in DOMAIN last.pre \ {Phys(last.path)} |-> last.pre[q]]
             /\ \E g \in {get(fs, last.path, TRUE, "None", "None", {})} :
                  g.exc = "HTTPError" /\ g.code = 404
             /\ last.path # <<>>
                  => \E g \in {get(fs, SubSeq(last.path, 1, Len(last.path) - 1),
                                   TRUE, "directory", "None", {})} :
                       g.exc = "none"
                         => \A c \in g.ret.content.list : c.path # last.path

C10_Witness ==
  /\ last.op = "delete_file"
  /\ Len(last.path) = 2
  /\ Stat(last.pre, Phys(last.path)) = "File"
  /\ Succeeded
  /\ Children(fs, Phys(SubSeq(last.path, 1, 1))) = {}
  /\ get(fs, SubSeq(last.path, 1, 1), TRUE, "directory", "None", {}).exc = "none"

\* the root a logical path belongs to: the shared root for a path that begins
\* with the shared segment, the private root for every other
RootOf(p) == IF p # <<>> /\ p[1] = SharedSegment THEN shared_dir ELSE root_dir

\* C11: a get that returns a model has resolved its path p into the private
\* root, or into the shared root when p begins with the shared segment: the
\* entry it describes and every backend call it issues are at that root
\* followed by p, and the model's path, computed back from the physical path,
\* is p, its name the last segment of p
C11_PathRoundTrip ==
  ( /\ last.op = "get"
    /\ Succeeded )
  => /\ last.ret.path = last.path
     /\ last.path # <<>> => last.ret.name = LastName(last.path)
     /\ RootOf(last.path) \o last.path \in DOMAIN last.pre
     /\ last.ret.size = get_file_info(last.pre, RootOf(last.path) \o last.path).size
          \/ last.ret.type = "directory"
     /\ \A i \in 1..Len(last.calls) :
          last.calls[i].path = RootOf(last.path) \o last.path

C11_Witness ==
  /\ last.op = "get"
  /\ Succeeded
  /\ last.path = <<SharedSegment>>
  /\ last.ret.path = <<SharedSegment>>
  /\ last.ret.type = "file"
  /\ last.ret.size = IntVal(2)
  /\ Len(last.calls) = 1
  /\ last.calls[1].path = Append(shared_dir, SharedSegment)
  /\ Stat(last.pre, Append(root_dir, SharedSegment)) = "Directory"

\* C12: the check of the destination and the move are two steps with nothing
\* held between them.  Whenever a second caller has made a file at the
\* destination after the check (which saw none) and the first caller then
\* moves a file, the move is issued all the same and the rename ends without
\* the 409: the source is gone and the destination holds what the source
\* held, the second caller's file overwritten
C12_RenameRace ==
  [][ ( /\ last.op = "rename_raced"
        /\ last'.op = "rename_moved"
        /\ Stat(fs, Phys(last.path)) = "File"
        /\ Stat(fs, Phys(last.new_path)) = "File"
        /\ \A i \in 1..Len(last'.calls) : last'.calls[i].err # "perm" )
      => /\ Phys(last.new_path) \notin DOMAIN last.pre
         /\ last'.exc = "none"
         /\ Len(last'.calls) = 1
         /\ Phys(last.path) \notin DOMAIN fs'
         /\ fs'[Phys(last.new_path)] = fs[Phys(last.path)] ]_vars

C12_Witness ==
  /\ last.op = "rename_moved"
  /\ Succeeded
  /\ Stat(last.pre, Phys(last.path)) = "File"
  /\ Stat(last.pre, Phys(last.new_path)) = "File"
  /\ last.pre[Phys(last.new_path)] # last.pre[Phys(last.path)]
  /\ fs[Phys(last.new_path)] = last.pre[Phys(last.path)]
  /\ Phys(last.path) \notin DOMAIN fs

\* C13: a save of a model of type directory at a path that a file occupies (and
\* that is not refused as hidden) fails with 400, issues no create_dir and
\* leaves the file system, so the file, as it was
C13_SaveDirectoryOntoFile ==
  ( /\ last.op = "save"
    /\ "type" \in DOMAIN last.model
    /\ last.model.type = "directory"
    /\ Stat(last.pre, Phys(last.path)) = "File"
    /\ allow_hidden \/ ~HiddenPath(last.path) )
  => /\ FailedWith(400)
     /\ \A i \in 1..Len(last.calls) : last.calls[i].kind # "create"
     /\ fs = last.pre

\* get serves the path of the last call: it is not hidden, or hidden paths
\* are allowed
Served == allow_hidden \/ ~HiddenPath(last.path)

\* C14 as stated: get with type 'directory' on an existing file, and with type
\* 'file' or 'notebook' on an existing directory, fails with 400; a model get
\* returns has type 'directory' if and only if the entry is a directory
C14_TypeAgreesAsStated ==
  last.op = "get"
  => /\ ( Stat(last.pre, Phys(last.path)) = "File" /\ last.type = "directory" )
          => FailedWith(400)
     /\ ( Stat(last.pre, Phys(last.path)) = "Directory"
          /\ last.type \in {"file", "notebook"} )
          => FailedWith(400)
     /\ Succeeded
          => ( last.ret.type = "directory"
               <=> Stat(last.pre, Phys(last.path)) = "Directory" )

\* C14 amended: the same for an entry that get serves; for an entry that is
\* hidden while allow_hidden is false get fails with 404 whatever the type
\* asked for.  The failing get issues no backend call and changes nothing
C14_TypeAgrees ==
  last.op = "get"
  => /\ ( /\ Served
          /\ \/ Stat(last.pre, Phys(last.path)) = "File" /\ last.type = "directory"
             \/ /\ Stat(last.pre, Phys(last.path)) = "Directory"
                /\ last.type \in {"file", "notebook"} )
          => FailedWith(400) /\ last.calls = <<>> /\ fs = last.pre
     /\ ( ~Served /\ Phys(last.path) \in DOMAIN last.pre ) => FailedWith(404)
     /\ Succeeded
          => /\ last.ret.type = "directory"
                  <=> Stat(last.pre, Phys(last.path)) = "Directory"
             /\ last.ret.type \in {"file", "notebook"}
                  <=> Stat(last.pre, Phys(last.path)) = "File"
             /\ last.type # "None" => last.ret.type = last.type

C14_Witness ==
  /\ last.op = "get"
  /\ Stat(last.pre, Phys(last.path)) = "Directory"
  /\ Children(last.pre, Phys(last.path)) # {}
  /\ last.type = "notebook"
  /\ last.content
  /\ FailedWith(400)
  /\ last.calls = <<>>

\* C15: when the move of rename_file fails in the backend for another reason
\* than permission (the source does not exist, the destination has no parent
\* directory), rename_file fails with 500; when it is refused for lack of
\* permission, with 403; it never ends with an exception that is no HTTPError,
\* and a rename that fails leaves the file system as it was
C15_RenameMoveFailure ==
  last.op = "rename_file"
  => /\ last.exc \in {"none", "HTTPError"}
     /\ ~Succeeded => fs = last.pre
     /\ \A i \in 1..Len(last.calls) :
          /\ last.calls[i].err = "io" => FailedWith(500)
          /\ last.calls[i].err = "perm" => FailedWith(403)

C15_Witness ==
  /\ last.op = "rename_file"
  /\ Phys(last.path) \notin DOMAIN last.pre
  /\ Phys(last.new_path) \notin DOMAIN last.pre
  /\ Len(last.calls) = 1
  /\ last.calls[1].kind = "move"
  /\ last.calls[1].err = "io"
  /\ FailedWith(500)
  /\ fs = last.pre

\* the entry at p and everything below it
Subtree(f, p) == (IF p \in DOMAIN f THEN {p} ELSE {}) \cup Descendants(f, p)

\* C16: after rename_file(old, new) has succeeded with old # new, nothing is
\* left at old or below it, new and what is below it are exactly what old and
\* what was below it were (kind and content, path for path), and every other
\* entry is as it was and no other entry has appeared; rename_file(p, p)
\* returns with no backend call and changes nothing
C16_RenameFrame ==
  last.op = "rename_file"
  => /\ last.path = last.new_path
          => Succeeded /\ last.calls = <<>> /\ fs = last.pre
     /\ ( Succeeded /\ last.path # last.new_path )
          => /\ Phys(last.path) \in DOMAIN last.pre
             /\ Subtree(fs, Phys(last.path)) = {}
             /\ Subtree(fs, Phys(last.new_path))
                = {Rebase(q, Phys(last.path), Phys(last.new_path)) :
                     q \in Subtree(last.pre, Phys(last.path))}
             /\ \A q \in Subtree(last.pre, Phys(last.path)) :
                  fs[Rebase(q, Phys(last.path), Phys(last.new_path))] = last.pre[q]
             /\ DOMAIN fs \ Subtree(fs, Phys(last.new_path))
                = DOMAIN last.pre \ Subtree(last.pre, Phys(last.path))
             /\ \A q \in DOMAIN fs \ Subtree(fs, Phys(last.new_path)) :
                  fs[q] = last.pre[q]

C16_Witness ==
  /\ last.op = "rename_file"
  /\ Succeeded
  /\ last.path # last.new_path
  /\ Stat(last.pre, Phys(last.path)) = "Directory"
  /\ \E q \in Children(last.pre, Phys(last.path)) : Stat(last.pre, q) = "File"
  /\ \E q \in Children(fs, Phys(last.new_path)) : Len(fs[q].data) > 0
  /\ DOMAIN fs \ Subtree(fs, Phys(last.new_path)) = DOMAIN InitialFs

\* C17: when none of the backend calls it issues fails, a save that raises an
\* error leaves the file system as it was before the call
C17_SaveAllOrNothing ==
  ( /\ last.op = "save"
    /\ \A i \in 1..Len(last.calls) : last.calls[i].err = "none"
    /\ ~Succeeded )
  => fs = last.pre

\* C18: for every existing entry that is not hidden and that the listing of
\* its parent shows, get with no type (and no content asked) succeeds and
\* returns the type that the entry carries in that listing
C18_InferredTypeAgrees ==
  ( /\ last.op = "get"
    /\ last.type = "None"
    /\ ~last.content
    /\ last.path # <<>>
    /\ ~HiddenPath(last.path)
    /\ Phys(last.path) \in DOMAIN last.pre )
  => \E g \in {get(last.pre, SubSeq(last.path, 1, Len(last.path) - 1), TRUE,
                   "directory", "None", {})} :
       /\ g.exc = "none"
       /\ \A c \in g.ret.content.list :
            c.path = last.path => Succeeded /\ last.ret.type = c.type

====
